---- MODULE Spec2Model ----
(***************************************************************************)
(* A model of examples/examples/cors_server.rs: the entry point `main`,    *)
(* the bootstrapper `run_server`, the `say_hello` callback, and the HTTP   *)
(* JSON-RPC service the bootstrapper configures and starts (access         *)
(* control filter inside, CORS layer outside).                             *)
(*                                                                         *)
(* Writes to standard output are taken to succeed.                         *)
(***************************************************************************)
EXTENDS Integers, Sequences, FiniteSets, TLC

VARIABLES
    pc,             \* position of main / run_server
    exitStatus,     \* "alive", or how the process ended
    subscriberSet,  \* a global default tracing subscriber is installed
    subscriberInits,\* number of try_init calls main has made
    acl,            \* run_server's local `acl`
    cors,           \* run_server's local `cors`
    server,         \* the HTTP server: listener, policies, method table
    module,         \* run_server's local `module`: name -> callback
    addr,           \* run_server's local `addr`
    rsResult,       \* what run_server returned to main
    server_addr,    \* main's local `server_addr`
    stdout,         \* lines written to standard output
    conns           \* per connection: the request in flight and its response

vars == <<pc, exitStatus, subscriberSet, subscriberInits, acl, cors, server,
          module, addr, rsResult, server_addr, stdout, conns>>

-----------------------------------------------------------------------------
(* Bounds *)

\* number of client connections, each carrying one request
NumConns == 2

Conns == 1..NumConns

-----------------------------------------------------------------------------
(* Text: a string is a sequence of one-character strings. *)

Digits == <<"0", "1", "2", "3", "4", "5", "6", "7", "8", "9">>

IsDigit(c) == \E i \in 1..10 : Digits[i] = c

DigitVal(c) == (CHOOSE i \in 1..10 : Digits[i] = c) - 1

RECURSIVE ParseDec(_)
\* decimal value of a sequence of digits
ParseDec(s) ==
    IF Len(s) = 0 THEN 0
    ELSE 10 * ParseDec(SubSeq(s, 1, Len(s) - 1)) + DigitVal(s[Len(s)])

RECURSIVE FmtDec(_)
\* decimal digits of a natural number
FmtDec(n) ==
    IF n < 10 THEN <<Digits[n + 1]>>
    ELSE FmtDec(n \div 10) \o <<Digits[(n % 10) + 1]>>

IsNumber(s) == Len(s) > 0 /\ \A i \in 1..Len(s) : IsDigit(s[i])

RECURSIVE Split(_, _)
\* the pieces of s between occurrences of sep
Split(s, sep) ==
    IF \A i \in 1..Len(s) : s[i] # sep THEN <<s>>
    ELSE LET k == CHOOSE i \in 1..Len(s) :
                      s[i] = sep /\ \A j \in 1..(i - 1) : s[j] # sep
         IN  <<SubSeq(s, 1, k - 1)>> \o Split(SubSeq(s, k + 1, Len(s)), sep)

NoAddr == [ip |-> <<0, 0, 0, 0>>, port |-> 0]

\* "a.b.c.d:port".parse::<SocketAddr>()
ParseSocketAddr(s) ==
    LET hp == Split(s, ":")
    IN  IF Len(hp) # 2 THEN [ok |-> FALSE, addr |-> NoAddr]
        ELSE LET octets == Split(hp[1], ".")
             IN  IF /\ Len(octets) = 4
                    /\ \A i \in 1..4 : /\ IsNumber(octets[i])
                                       /\ Len(octets[i]) <= 3
                                       /\ ParseDec(octets[i]) <= 255
                    /\ IsNumber(hp[2])
                    /\ Len(hp[2]) <= 5
                    /\ ParseDec(hp[2]) <= 65535
                 THEN [ok |-> TRUE,
                       addr |-> [ip |-> [i \in 1..4 |-> ParseDec(octets[i])],
                                 port |-> ParseDec(hp[2])]]
                 ELSE [ok |-> FALSE, addr |-> NoAddr]

\* format!("{}", addr) for a V4 socket address
DisplaySocketAddr(a) ==
    FmtDec(a.ip[1]) \o <<".">> \o FmtDec(a.ip[2]) \o <<".">> \o
    FmtDec(a.ip[3]) \o <<".">> \o FmtDec(a.ip[4]) \o <<":">> \o FmtDec(a.port)

\* the literal "127.0.0.1:0"
BindAddrStr == <<"1", "2", "7", ".", "0", ".", "0", ".", "1", ":", "0">>

\* ports the OS may hand out for a request to bind port 0
OsPorts == {8080, 65535}

-----------------------------------------------------------------------------
(* Policies *)

AllowAny == [any |-> TRUE, list |-> {}]

NoAcl == [built |-> FALSE, hosts |-> AllowAny, origins |-> AllowAny]

\* AccessControlBuilder::new().allow_all_hosts().allow_all_origins().build()
AclAllowAll == [built |-> TRUE, hosts |-> AllowAny, origins |-> AllowAny]

NoCors == [built |-> FALSE, allow_methods |-> {}, allow_origin |-> AllowAny,
           allow_headers |-> {}]

\* a CORS policy that allows one origin instead of any
CorsOneOrigin == [built |-> TRUE, allow_methods |-> {"POST"},
                  allow_origin |-> [any |-> FALSE, list |-> {"https://a.example"}],
                  allow_headers |-> {"content-type"}]

\* CorsLayer::new().allow_methods([POST]).allow_origin(Any).allow_headers([CONTENT_TYPE])
CorsPolicy == [built |-> TRUE, allow_methods |-> {"POST"},
               allow_origin |-> AllowAny, allow_headers |-> {"content-type"}]

NoServer == [state |-> "none", listener |-> NoAddr, acl |-> NoAcl,
             cors |-> NoCors, methods |-> <<>>]

NoResult == [ok |-> FALSE, err |-> "unset", addr |-> NoAddr]

-----------------------------------------------------------------------------
(* The RPC method table and the registered callback *)

Greeting == "Hello there!!"

HelloLine == [text |-> "say_hello method called!", url |-> <<>>]

\* a callback that keeps count: it greets differently once it has been called
say_hello_counts(params) ==
    [ok |-> TRUE,
     value |-> IF \E i \in DOMAIN stdout : stdout[i] = HelloLine
               THEN "Hello again!!" ELSE Greeting,
     out |-> <<HelloLine>>]

\* a callback that reads its params and fails when some are given
say_hello_checks_params(params) ==
    IF params = "absent"
    THEN [ok |-> TRUE, value |-> Greeting, out |-> <<HelloLine>>]
    ELSE [ok |-> FALSE, value |-> "", out |-> <<HelloLine>>]

\* the closure |_, _| { println!("say_hello method called!"); Ok("Hello there!!") }
say_hello(params) == [ok |-> TRUE, value |-> Greeting, out |-> <<HelloLine>>]

\* RpcModule::register_method: a name may be registered once
register_method(methods, name, callback) ==
    IF name \in DOMAIN methods
    THEN [ok |-> FALSE, methods |-> methods]
    ELSE [ok |-> TRUE, methods |-> methods @@ (name :> callback)]

\* invoking a registered callback
Invoke(callback, params) ==
    IF callback = "say_hello" THEN say_hello(params)
    ELSE [ok |-> FALSE, value |-> "", out |-> <<>>]

-----------------------------------------------------------------------------
(* Requests and responses *)

Origins == {"absent", "https://a.example", "null"}

Hosts == {"evil.example"}

MethodNames == {"say_hello", "say_goodbye"}

Params == {"absent", "[1,2]"}

Ids == {"1", "\"abc\""}

NoCall == [kind |-> "empty", method |-> "", params |-> "absent", id |-> "null"]

Garbage == [kind |-> "garbage", method |-> "", params |-> "absent", id |-> "null"]

Calls ==
    [kind : {"call"}, method : {"say_hello"}, params : Params, id : Ids]
    \cup [kind : {"call"}, method : MethodNames \ {"say_hello"},
          params : {"absent"}, id : {"1"}]

Requests ==
    [http : {"OPTIONS"}, host : Hosts, origin : Origins, body : {NoCall}]
    \cup [http : {"POST"}, host : Hosts, origin : Origins, body : Calls \cup {Garbage}]

NoReq == [http |-> "", host |-> "", origin |-> "absent", body |-> NoCall]

EmptyBody == [kind |-> "empty", id |-> "null", result |-> "", code |-> 0]

NoResp == [status |-> 0, headers |-> {}, body |-> EmptyBody]

IdleConn == [st |-> "idle", req |-> NoReq, resp |-> NoResp]

ParseErrorCode == -32700

MethodNotFoundCode == -32601

CallFailedCode == -32000

Allowed(list, v) == list.any \/ v \in list.list

\* AccessControl::verify_host, verify_origin: a filter, TRUE when the request passes
AclVerify(policy, req) ==
    /\ Allowed(policy.hosts, req.host)
    /\ (req.origin = "absent" \/ Allowed(policy.origins, req.origin))

\* JSON-RPC dispatch of a request body against the method table
Dispatch(methods, body) ==
    IF body.kind # "call"
    THEN [status |-> 200, headers |-> {<<"content-type", "application/json">>},
          body |-> [kind |-> "error", id |-> "null", result |-> "",
                    code |-> ParseErrorCode],
          out |-> <<>>]
    ELSE IF body.method \notin DOMAIN methods
    THEN [status |-> 200, headers |-> {<<"content-type", "application/json">>},
          body |-> [kind |-> "error", id |-> body.id, result |-> "",
                    code |-> MethodNotFoundCode],
          out |-> <<>>]
    ELSE LET r == Invoke(methods[body.method], body.params)
         IN  [status |-> 200, headers |-> {<<"content-type", "application/json">>},
              body |-> IF r.ok
                       THEN [kind |-> "result", id |-> body.id,
                             result |-> r.value, code |-> 0]
                       ELSE [kind |-> "error", id |-> body.id, result |-> "",
                             code |-> CallFailedCode],
              out |-> r.out]

\* the RPC service behind the middleware: access control, then dispatch
RpcService(srv, req) ==
    IF ~AclVerify(srv.acl, req)
    THEN [status |-> 403, headers |-> {<<"content-type", "text/plain">>},
          body |-> EmptyBody, out |-> <<>>]
    ELSE IF req.http # "POST"
    THEN [status |-> 405, headers |-> {<<"content-type", "text/plain">>},
          body |-> EmptyBody, out |-> <<>>]
    ELSE Dispatch(srv.methods, req.body)

\* the Access-Control-Allow-Origin header the CORS policy yields for a request
AllowOriginHeader(policy, req) ==
    IF policy.allow_origin.any
    THEN {<<"access-control-allow-origin", "*">>}
    ELSE IF req.origin # "absent" /\ req.origin \in policy.allow_origin.list
    THEN {<<"access-control-allow-origin", req.origin>>}
    ELSE {}

\* the CORS layer around the inner service: answers a preflight itself,
\* otherwise adds its headers to the inner response
CorsCall(policy, req, inner) ==
    LET common == AllowOriginHeader(policy, req) \cup {<<"vary", "origin">>}
    IN  IF req.http = "OPTIONS"
        THEN [status |-> 200,
              headers |-> common
                  \cup {<<"access-control-allow-methods", m>> : m \in policy.allow_methods}
                  \cup {<<"access-control-allow-headers", h>> : h \in policy.allow_headers},
              body |-> EmptyBody, out |-> <<>>]
        ELSE [inner EXCEPT !.headers = inner.headers \cup common]

\* the whole HTTP service the server runs for one request
HttpService(srv, req) == CorsCall(srv.cors, req, RpcService(srv, req))

-----------------------------------------------------------------------------
(* Initial state: the process has just entered main *)

Init ==
    /\ pc = "main_init"
    /\ exitStatus = "alive"
    /\ subscriberSet = FALSE
    /\ subscriberInits = 0
    /\ acl = NoAcl
    /\ cors = NoCors
    /\ server = NoServer
    /\ module = <<>>
    /\ addr = NoAddr
    /\ rsResult = NoResult
    /\ server_addr = NoAddr
    /\ stdout = <<>>
    /\ conns = [c \in Conns |-> IdleConn]

-----------------------------------------------------------------------------
(* main, up to the call of run_server *)

\* try_init() with its Err ignored: main goes on without a subscriber
InitSubscriberIgnoringErr ==
    /\ pc = "main_init"
    /\ exitStatus = "alive"
    /\ subscriberInits' = subscriberInits + 1
    /\ subscriberSet' \in BOOLEAN
    /\ pc' = "rs_acl"
    /\ UNCHANGED exitStatus
    /\ UNCHANGED <<acl, cors, server, module, addr, rsResult, server_addr,
                   stdout, conns>>

\* FmtSubscriber::builder()...try_init().expect(..): try_init installs the
\* subscriber or returns Err, and expect panics on Err
InitSubscriber ==
    /\ pc = "main_init"
    /\ exitStatus = "alive"
    /\ subscriberInits' = subscriberInits + 1
    /\ \/ /\ subscriberSet' = TRUE
          /\ pc' = "rs_acl"
          /\ UNCHANGED exitStatus
       \/ /\ pc' = "exited"
          /\ exitStatus' = "101"
          /\ UNCHANGED subscriberSet
    /\ UNCHANGED <<acl, cors, server, module, addr, rsResult, server_addr,
                   stdout, conns>>

-----------------------------------------------------------------------------
(* run_server *)

\* `?` inside run_server: return Err(e) to main; the locals are dropped
RsReturnErr(e) ==
    /\ rsResult' = [ok |-> FALSE, err |-> e, addr |-> NoAddr]
    /\ server' = IF server.state = "none" THEN server
                 ELSE [server EXCEPT !.state = "dropped"]
    /\ pc' = "main_ret"

BuildAcl ==
    /\ pc = "rs_acl"
    /\ exitStatus = "alive"
    /\ acl' = AclAllowAll
    /\ pc' = "rs_cors"
    /\ UNCHANGED <<exitStatus, subscriberSet, subscriberInits, cors, server,
                   module, addr, rsResult, server_addr, stdout, conns>>

BuildCors ==
    /\ pc = "rs_cors"
    /\ exitStatus = "alive"
    /\ cors' = CorsPolicy
    /\ pc' = "rs_build"
    /\ UNCHANGED <<exitStatus, subscriberSet, subscriberInits, acl, server,
                   module, addr, rsResult, server_addr, stdout, conns>>

\* the ports a bind of the requested port can end up on
BindPorts(requested) == IF requested = 0 THEN OsPorts ELSE {requested}

\* build(..) whose bind error is recorded but does not stop the bootstrap
BuildServerKeepsGoing ==
    /\ pc = "rs_build"
    /\ exitStatus = "alive"
    /\ LET parsed == ParseSocketAddr(BindAddrStr)
       IN  \/ \E port \in BindPorts(parsed.addr.port) :
                 /\ server' = [state |-> "built",
                               listener |-> [ip |-> parsed.addr.ip, port |-> port],
                               acl |-> acl, cors |-> cors, methods |-> <<>>]
                 /\ pc' = "rs_register"
                 /\ UNCHANGED rsResult
           \/ /\ server' = [state |-> "built", listener |-> parsed.addr,
                             acl |-> acl, cors |-> cors, methods |-> <<>>]
              /\ rsResult' = [ok |-> FALSE, err |-> "bind", addr |-> NoAddr]
              /\ pc' = "rs_register"
    /\ UNCHANGED <<exitStatus, subscriberSet, subscriberInits, acl, cors,
                   module, addr, server_addr, stdout, conns>>

\* HttpServerBuilder::default().set_access_control(acl).set_middleware(..)
\*     .build("127.0.0.1:0".parse::<SocketAddr>()?).await?
BuildServer ==
    /\ pc = "rs_build"
    /\ exitStatus = "alive"
    /\ LET parsed == ParseSocketAddr(BindAddrStr)
       IN  IF ~parsed.ok
           THEN RsReturnErr("addr_parse")
           ELSE \/ \E port \in BindPorts(parsed.addr.port) :
                     /\ server' = [state |-> "built",
                                   listener |-> [ip |-> parsed.addr.ip, port |-> port],
                                   acl |-> acl, cors |-> cors, methods |-> <<>>]
                     /\ pc' = "rs_register"
                     /\ UNCHANGED rsResult
                \/ RsReturnErr("bind")
    /\ UNCHANGED <<exitStatus, subscriberSet, subscriberInits, acl, cors,
                   module, addr, server_addr, stdout, conns>>

\* the callback registered under another name than "say_hello"
RegisterUnderOtherName ==
    /\ pc = "rs_register"
    /\ exitStatus = "alive"
    /\ module' = register_method(<<>>, "say_goodbye", "say_hello").methods
    /\ pc' = "rs_local_addr"
    /\ UNCHANGED <<rsResult, server>>
    /\ UNCHANGED <<exitStatus, subscriberSet, subscriberInits, acl, cors,
                   addr, server_addr, stdout, conns>>

\* let mut module = RpcModule::new(()); module.register_method("say_hello", ..)?
RegisterSayHello ==
    /\ pc = "rs_register"
    /\ exitStatus = "alive"
    /\ LET r == register_method(<<>>, "say_hello", "say_hello")
       IN  IF r.ok
           THEN /\ module' = r.methods
                /\ pc' = "rs_local_addr"
                /\ UNCHANGED <<rsResult, server>>
           ELSE /\ RsReturnErr("register")
                /\ UNCHANGED module
    /\ UNCHANGED <<exitStatus, subscriberSet, subscriberInits, acl, cors,
                   addr, server_addr, stdout, conns>>

\* addr taken from the address asked for instead of server.local_addr()
LocalAddrRequested ==
    /\ pc = "rs_local_addr"
    /\ exitStatus = "alive"
    /\ \/ /\ addr' = ParseSocketAddr(BindAddrStr).addr
          /\ pc' = "rs_start"
          /\ UNCHANGED <<rsResult, server>>
       \/ /\ RsReturnErr("local_addr")
          /\ UNCHANGED addr
    /\ UNCHANGED <<exitStatus, subscriberSet, subscriberInits, acl, cors,
                   module, server_addr, stdout, conns>>

\* let addr = server.local_addr()?
LocalAddr ==
    /\ pc = "rs_local_addr"
    /\ exitStatus = "alive"
    /\ \/ /\ addr' = server.listener
          /\ pc' = "rs_start"
          /\ UNCHANGED <<rsResult, server>>
       \/ /\ RsReturnErr("local_addr")
          /\ UNCHANGED addr
    /\ UNCHANGED <<exitStatus, subscriberSet, subscriberInits, acl, cors,
                   module, server_addr, stdout, conns>>

\* the server started on a method table that is still filled in afterwards:
\* start and registration swapped
StartBeforeRegister ==
    /\ pc = "rs_start"
    /\ exitStatus = "alive"
    /\ \/ /\ server' = [server EXCEPT !.state = "started", !.methods = <<>>]
          /\ rsResult' = [ok |-> TRUE, err |-> "", addr |-> addr]
          /\ pc' = "main_ret"
       \/ RsReturnErr("start")
    /\ UNCHANGED <<exitStatus, subscriberSet, subscriberInits, acl, cors,
                   module, addr, server_addr, stdout, conns>>

\* let server_handle = server.start(module)?; Ok((addr, server_handle))
StartServer ==
    /\ pc = "rs_start"
    /\ exitStatus = "alive"
    /\ \/ /\ server' = [server EXCEPT !.state = "started", !.methods = module]
          /\ rsResult' = [ok |-> TRUE, err |-> "", addr |-> addr]
          /\ pc' = "main_ret"
       \/ RsReturnErr("start")
    /\ UNCHANGED <<exitStatus, subscriberSet, subscriberInits, acl, cors,
                   module, addr, server_addr, stdout, conns>>

-----------------------------------------------------------------------------
(* main, after run_server *)

\* run_server's Err not propagated: main goes on to print and suspend
MainIgnoresErr ==
    /\ pc = "main_ret"
    /\ exitStatus = "alive"
    /\ server_addr' = rsResult.addr
    /\ pc' = "main_print"
    /\ UNCHANGED exitStatus
    /\ UNCHANGED <<subscriberSet, subscriberInits, acl, cors, server, module,
                   addr, rsResult, stdout, conns>>

\* let (server_addr, _handle) = run_server().await?
MainRunServerReturn ==
    /\ pc = "main_ret"
    /\ exitStatus = "alive"
    /\ IF rsResult.ok
       THEN /\ server_addr' = rsResult.addr
            /\ pc' = "main_print"
            /\ UNCHANGED exitStatus
       ELSE /\ pc' = "exited"
            /\ exitStatus' = "1"
            /\ UNCHANGED server_addr
    /\ UNCHANGED <<subscriberSet, subscriberInits, acl, cors, server, module,
                   addr, rsResult, stdout, conns>>

HttpPrefix == <<"h", "t", "t", "p", ":", "/", "/">>

InstructionsLine ==
    [text |-> "Run the following snippet in the developer console in any Website.",
     url |-> <<>>]

\* the snippet, with "http://{}" filled in
SnippetLine(a) == [text |-> "fetch", url |-> HttpPrefix \o DisplaySocketAddr(a)]

\* the two println! of main
PrintInstructions ==
    /\ pc = "main_print"
    /\ exitStatus = "alive"
    /\ stdout' = stdout \o <<InstructionsLine, SnippetLine(server_addr)>>
    /\ pc' = "main_pending"
    /\ UNCHANGED <<exitStatus, subscriberSet, subscriberInits, acl, cors,
                   server, module, addr, rsResult, server_addr, conns>>

\* an await that completes: main returns Ok(()) and the runtime shuts down
AwaitReturns ==
    /\ pc = "main_pending"
    /\ exitStatus = "alive"
    /\ pc' = "exited"
    /\ exitStatus' = "0"
    /\ server' = [server EXCEPT !.state = "dropped"]
    /\ conns' = [c \in Conns |-> IdleConn]
    /\ UNCHANGED <<subscriberSet, subscriberInits, acl, cors, module, addr,
                   rsResult, server_addr, stdout>>

\* futures::future::pending().await: the future is never ready, main stays
\* suspended at this await
AwaitPending ==
    /\ pc = "main_pending"
    /\ exitStatus = "alive"
    /\ UNCHANGED vars

\* the process is killed from outside: its sockets are closed with it
Kill ==
    /\ exitStatus = "alive"
    /\ exitStatus' = "killed"
    /\ server' = IF server.state = "none" THEN server
                 ELSE [server EXCEPT !.state = "dropped"]
    /\ conns' = [c \in Conns |-> IdleConn]
    /\ UNCHANGED <<pc, subscriberSet, subscriberInits, acl, cors,
                   module, addr, rsResult, server_addr, stdout>>

-----------------------------------------------------------------------------
(* The running server and its clients *)

\* the process is alive and the server task is serving
Serving == exitStatus = "alive" /\ server.state = "started"

\* a client sends a request on an idle connection to the listening socket
Send(c) ==
    /\ exitStatus = "alive"
    /\ server.state \in {"built", "started"}
    /\ conns[c].st = "idle"
    /\ \E req \in Requests :
           conns' = [conns EXCEPT ![c] = [st |-> "recv", req |-> req, resp |-> NoResp]]
    /\ UNCHANGED <<pc, exitStatus, subscriberSet, subscriberInits, acl, cors,
                   server, module, addr, rsResult, server_addr, stdout>>

\* the server answers the request in flight on connection c
Serve(c) ==
    /\ Serving
    /\ conns[c].st = "recv"
    /\ LET r == HttpService(server, conns[c].req)
       IN  /\ conns' = [conns EXCEPT ![c].st = "done",
                                     ![c].resp = [status |-> r.status,
                                                  headers |-> r.headers,
                                                  body |-> r.body]]
           /\ stdout' = stdout \o r.out
    /\ UNCHANGED <<pc, exitStatus, subscriberSet, subscriberInits, acl, cors,
                   server, module, addr, rsResult, server_addr>>

-----------------------------------------------------------------------------

Next ==
    \/ InitSubscriber
    \/ BuildAcl
    \/ BuildCors
    \/ BuildServer
    \/ RegisterSayHello
    \/ LocalAddr
    \/ StartServer
    \/ MainRunServerReturn
    \/ PrintInstructions
    \/ AwaitPending
    \/ Kill
    \/ \E c \in Conns : Send(c)
    \/ \E c \in Conns : Serve(c)

Spec == Init /\ [][Next]_vars

-----------------------------------------------------------------------------
(* Properties *)

AllowOriginName == "access-control-allow-origin"

IsHelloCall(req) ==
    req.http = "POST" /\ req.body.kind = "call" /\ req.body.method = "say_hello"

IsUnknownCall(req) ==
    req.http = "POST" /\ req.body.kind = "call" /\ req.body.method # "say_hello"

Bootstrapped == rsResult.ok

RsFailed == rsResult.err \in {"addr_parse", "bind", "register", "local_addr", "start"}

Snippets == {i \in DOMAIN stdout : stdout[i].text = "fetch"}

MainPrinted == \E i \in DOMAIN stdout : stdout[i] = InstructionsLine \/ stdout[i].text = "fetch"

\* the text after "http://" in a printed snippet
UrlAuthority(url) == SubSeq(url, Len(HttpPrefix) + 1, Len(url))

\* C1: once run_server has succeeded, main stays at or before its final await
\* with the server started, and the only step that ends this is the external
\* kill: no step of the program itself terminates the process or stops the
\* server.
C1_RunsUntilKilled ==
    /\ [](Bootstrapped /\ exitStatus = "alive"
            => /\ server.state = "started"
               /\ pc \in {"main_ret", "main_print", "main_pending"})
    /\ [][Bootstrapped /\ exitStatus = "alive"
            => \/ exitStatus' = "killed"
               \/ /\ exitStatus' = "alive"
                  /\ server'.state = "started"
                  /\ pc' \in {"main_ret", "main_print", "main_pending"}]_vars

\* main is suspended at its final await and a request has been served meanwhile
C1_Witness ==
    /\ Bootstrapped
    /\ pc = "main_pending"
    /\ exitStatus = "alive"
    /\ server.state = "started"
    /\ \E c \in Conns : conns[c].st = "done"

\* C2: when run_server has failed, main is at the return or has exited, it
\* exits with status 1 and by no other step (but the external kill), nothing of
\* the instructions is printed, the final await is not reached, and no step of
\* run_server runs again.
C2_FailurePropagates ==
    /\ [](RsFailed
            => /\ pc \in {"main_ret", "exited"}
               /\ (pc = "exited" => exitStatus = "1")
               /\ ~MainPrinted
               /\ server.state # "started")
    /\ [][RsFailed /\ pc = "main_ret" /\ exitStatus = "alive"
            => \/ exitStatus' = "killed"
               \/ (pc' = "exited" /\ exitStatus' = "1")]_vars
    /\ [][RsFailed => rsResult' = rsResult]_vars

\* server.start failed and the process has exited with status 1
C2_Witness ==
    /\ rsResult.err = "start"
    /\ pc = "exited"
    /\ exitStatus = "1"
    /\ stdout = <<>>

\* C3: when binding fails, there is no server and no listener, no request is
\* accepted or served, and the process exits with status 1.
C3_BindFailureStartsNothing ==
    rsResult.err = "bind"
        => /\ server = NoServer
           /\ \A c \in Conns : conns[c] = IdleConn
           /\ stdout = <<>>
           /\ pc \in {"main_ret", "exited"}
           /\ (pc = "exited" => exitStatus = "1")

\* the bind failed and the process has exited with status 1
C3_Witness ==
    /\ rsResult.err = "bind"
    /\ pc = "exited"
    /\ exitStatus = "1"

\* C4: whenever the server is started, and whenever a request has been served,
\* the method table is exactly {say_hello} and the policies are the ones built
\* at startup; no step taken while the server is started changes any of them.
C4_TableAndPoliciesFrozen ==
    /\ [](server.state = "started" \/ (\E c \in Conns : conns[c].st = "done")
            => /\ DOMAIN server.methods = {"say_hello"}
               /\ server.acl = AclAllowAll
               /\ server.cors = CorsPolicy)
    /\ [][server.state = "started"
            => /\ server'.methods = server.methods
               /\ server'.acl = server.acl
               /\ server'.cors = server.cors]_vars

\* requests, one of them for an unregistered method, have been served by the
\* started server
C4_Witness ==
    /\ server.state = "started"
    /\ \A c \in Conns : conns[c].st = "done"
    /\ \E c \in Conns : IsUnknownCall(conns[c].req)
    /\ DOMAIN server.methods = {"say_hello"}

\* C5: every served POST call of say_hello, whatever its params and id, has a
\* 200 response whose body is a JSON-RPC result, the greeting, with the
\* request's id.
C5_SayHelloSucceeds ==
    \A c \in Conns :
        conns[c].st = "done" /\ IsHelloCall(conns[c].req)
            => /\ conns[c].resp.status = 200
               /\ conns[c].resp.body =
                      [kind |-> "result", id |-> conns[c].req.body.id,
                       result |-> "Hello there!!", code |-> 0]

\* a say_hello call with params and a string id has been answered
C5_Witness ==
    \E c \in Conns :
        /\ conns[c].st = "done"
        /\ IsHelloCall(conns[c].req)
        /\ conns[c].req.body.params = "[1,2]"
        /\ conns[c].req.body.id = "\"abc\""
        /\ conns[c].resp.body.kind = "result"

\* C6: every served POST call of a method other than say_hello has a 200
\* response whose body is the JSON-RPC error "method not found" with the
\* request's id, and the server is still started with its table {say_hello}.
C6_UnknownMethodNotFound ==
    \A c \in Conns :
        conns[c].st = "done" /\ IsUnknownCall(conns[c].req)
            => /\ conns[c].resp.status = 200
               /\ conns[c].resp.body =
                      [kind |-> "error", id |-> conns[c].req.body.id,
                       result |-> "", code |-> -32601]
               /\ server.state = "started"
               /\ DOMAIN server.methods = {"say_hello"}

\* a call of say_goodbye has been answered
C6_Witness ==
    \E c \in Conns :
        /\ conns[c].st = "done"
        /\ conns[c].req.body.method = "say_goodbye"
        /\ conns[c].resp.body.kind = "error"

C8_AnyOriginAllowed ==
    \A c \in Conns :
        conns[c].st = "done" /\ conns[c].req.origin # "absent"
            => /\ conns[c].resp.status # 403
               /\ \E h \in conns[c].resp.headers :
                      h[1] = AllowOriginName /\ h[2] \in {"*", conns[c].req.origin}
               /\ AclVerify(server.acl, conns[c].req)
               /\ \A h \in RpcService(server, conns[c].req).headers :
                      h[1] # AllowOriginName

\* a preflight and an actual request, from different origins, have been answered
C8_Witness ==
    \E c, d \in Conns :
        /\ conns[c].st = "done"
        /\ conns[d].st = "done"
        /\ conns[c].req.http = "OPTIONS"
        /\ conns[c].req.origin = "null"
        /\ conns[d].req.http = "POST"
        /\ conns[d].req.origin = "https://a.example"
        /\ <<AllowOriginName, "*">> \in conns[c].resp.headers
        /\ <<AllowOriginName, "*">> \in conns[d].resp.headers

\* C9: the address run_server returns on success is 127.0.0.1 with a port in
\* 1..65535, it is the listener's address, and every printed snippet's URL
\* parses back to exactly that address.
C9_ReturnedAddrIsBound ==
    /\ Bootstrapped
          => /\ rsResult.addr.ip = <<127, 0, 0, 1>>
             /\ rsResult.addr.port \in 1..65535
             /\ rsResult.addr = server.listener
    /\ \A i \in Snippets :
          /\ Bootstrapped
          /\ SubSeq(stdout[i].url, 1, Len(HttpPrefix)) = HttpPrefix
          /\ ParseSocketAddr(UrlAuthority(stdout[i].url)) =
                 [ok |-> TRUE, addr |-> rsResult.addr]

\* the snippet has been printed for a server bound to port 65535
C9_Witness ==
    /\ Bootstrapped
    /\ pc = "main_pending"
    /\ rsResult.addr.port = 65535
    /\ Snippets # {}

\* C10: try_init is called at most once and before anything else; leaving the
\* first step of main either installs the subscriber and enters run_server or
\* ends the process with the panic status; run_server runs only with the
\* subscriber installed; and after the panic nothing was built, bound,
\* registered or printed.
C10_SubscriberFirst ==
    /\ [](/\ subscriberInits <= 1
          /\ (pc = "main_init" <=> subscriberInits = 0)
          /\ (pc \notin {"main_init", "exited"} => subscriberSet)
          /\ (pc = "main_init" \/ exitStatus = "101"
                => /\ acl = NoAcl /\ cors = NoCors /\ server = NoServer
                   /\ module = <<>> /\ rsResult = NoResult /\ stdout = <<>>
                   /\ \A c \in Conns : conns[c] = IdleConn)
          /\ (exitStatus = "101" => pc = "exited" /\ ~subscriberSet))
    /\ [][pc = "main_init" /\ pc' # pc
            => \/ (subscriberSet' /\ pc' = "rs_acl" /\ exitStatus' = "alive")
               \/ (~subscriberSet' /\ pc' = "exited" /\ exitStatus' = "101")]_vars

\* the subscriber could not be installed and the process has panicked
C10_Witness ==
    /\ exitStatus = "101"
    /\ subscriberInits = 1
    /\ pc = "exited"

====
